---------------------------- MODULE Spec2Model ----------------------------
(***************************************************************************)
(* MiniGit object model: the FNV-1a fingerprint (Hashing.cpp), the commit  *)
(* record with its text encoding (Commit.cpp, Commit.h) and the file       *)
(* helpers the store is built on (FileUtils.cpp).                          *)
(*                                                                         *)
(* A std::string is a sequence of bytes 0..255.  An unsigned int is kept   *)
(* as a pair <<high 16 bits, low 16 bits>>, because the model checker's    *)
(* integers are 32-bit signed and the 32-bit accumulator must wrap.        *)
(***************************************************************************)
EXTENDS Integers, Sequences, FiniteSets, TLC

VARIABLES
    hashInput,  \* Hashing::calculateHash: the argument
    digest,     \* Hashing::calculateHash: <<>> before the call, <<result>> after
    args,       \* the caller's arguments to CommitNode(message, parentHashes, fileBlobs)
    commit,     \* the caller's CommitNode object
    buf,        \* the stored bytes handed to CommitNode::deserialize / got from serialize
    pristine,   \* buf as it was before ignorable lines were added to it
    out,        \* what the last CommitNode::deserialize call did
    origin,     \* how commit was made: "default" or "constructor"
    entry,      \* the file system: path -> absent, directory or regular file
    last,       \* the last FileUtils call and what it returned
    streak,     \* the run of successful writeToFile calls with the same arguments
    before      \* the file system as it was before the last writeToFile call

vars == <<hashInput, digest, args, commit, buf, pristine, out, origin, entry, last, streak, before>>

hashVars == <<hashInput, digest>>
commitVars == <<args, commit, buf, pristine, out, origin>>
fileVars == <<entry, last, streak, before>>

(***************************************************************************)
(* Bounds of the model.                                                    *)
(***************************************************************************)
MaxBytes == 3       \* longest argument of Hashing::calculateHash in HashSpec
MaxLines == 3       \* an ignorable line is added only to a buffer of fewer lines

(***************************************************************************)
(* std::string helpers.                                                    *)
(***************************************************************************)
NL == <<10>>        \* "\n"
SP == <<32>>        \* " "

\* s.substr(pos): the bytes from index pos (0-based) to the end
substr(s, pos) == SubSeq(s, pos + 1, Len(s))

\* s.substr(pos, n)
substr2(s, pos, n) == SubSeq(s, pos + 1, pos + n)

\* line.rfind(prefix, 0) == 0: line starts with prefix
startsWith(line, prefix) ==
    /\ Len(line) >= Len(prefix)
    /\ SubSeq(line, 1, Len(prefix)) = prefix

\* s.find(c): the 0-based index of the first byte c, -1 for std::string::npos
find(s, c) ==
    IF \E i \in 1..Len(s) : s[i] = c
    THEN (CHOOSE i \in 1..Len(s) : s[i] = c /\ \A j \in 1..(i - 1) : s[j] # c) - 1
    ELSE -1

\* a < b on std::string: lexicographic, bytes compared as unsigned char
RECURSIVE stringLess(_, _)
stringLess(a, b) ==
    IF b = <<>> THEN FALSE
    ELSE IF a = <<>> THEN TRUE
    ELSE IF a[1] # b[1] THEN a[1] < b[1]
    ELSE stringLess(Tail(a), Tail(b))

\* the concatenation of a sequence of strings
RECURSIVE concat(_)
concat(ss) == IF ss = <<>> THEN <<>> ELSE Head(ss) \o concat(Tail(ss))

(***************************************************************************)
(* Hashing::calculateHash (Hashing.cpp).                                   *)
(***************************************************************************)
Word == 65536

FNV_PRIME        == <<256, 403>>        \* 16777619U   = 0x01000193
FNV_OFFSET_BASIS == <<33052, 40389>>    \* 2166136261U = 0x811c9dc5

\* bitwise exclusive or of two naturals
RECURSIVE bitXor(_, _)
bitXor(a, b) ==
    IF a = 0 THEN b
    ELSE IF b = 0 THEN a
    ELSE ((a + b) % 2) + 2 * bitXor(a \div 2, b \div 2)

\* the byte widened as a signed char would be (sign extension)
toUnsignedSigned(c) == IF c >= 128 THEN <<65535, 65280 + c>> ELSE <<0, c>>

\* static_cast<unsigned char>(c) widened to unsigned int
toUnsigned(c) == <<0, c>>

\* hash ^= x on unsigned int
xor32(h, x) == <<bitXor(h[1], x[1]), bitXor(h[2], x[2])>>

\* hash *= p on unsigned int: the product modulo 2^32
mul32(h, p) ==
    LET low == h[2] * p[2]
    IN  <<(h[1] * p[2] + h[2] * p[1] + (low \div Word)) % Word, low % Word>>

\* the loop body: XOR with the current byte, then multiply by the prime
fnvStep(h, c) == mul32(xor32(h, toUnsigned(c)), FNV_PRIME)

\* for (char c : content) { ... }: st.hash is the accumulator, st.rest the bytes
\* to read.  The bytes are taken in order, the first half of st.rest and then
\* the second, which keeps the evaluation shallow; the result is that of the
\* byte-by-byte loop.
RECURSIVE fnvLoop(_)
fnvLoop(st) ==
    IF Len(st.rest) = 0 THEN st.hash
    ELSE IF Len(st.rest) = 1 THEN fnvStep(st.hash, st.rest[1])
    ELSE LET mid == Len(st.rest) \div 2
         IN  fnvLoop([hash |-> fnvLoop([hash |-> st.hash, rest |-> SubSeq(st.rest, 1, mid)]),
                      rest |-> SubSeq(st.rest, mid + 1, Len(st.rest))])

HexDigits == <<48, 49, 50, 51, 52, 53, 54, 55, 56, 57, 97, 98, 99, 100, 101, 102>>

\* operator<< of an unsigned int under std::hex: the digits, no leading zeros
RECURSIVE hexDigitsOf(_)
hexDigitsOf(h) ==
    IF h[1] = 0 /\ h[2] < 16 THEN <<HexDigits[h[2] + 1]>>
    ELSE hexDigitsOf(<<h[1] \div 16, (h[1] % 16) * 4096 + (h[2] \div 16)>>)
             \o <<HexDigits[(h[2] % 16) + 1]>>

\* std::setw(w) << std::setfill(fill): right-adjusted, padded on the left
RECURSIVE padLeft(_, _, _)
padLeft(s, w, fill) == IF Len(s) >= w THEN s ELSE padLeft(<<fill>> \o s, w, fill)

\* ss << std::hex << std::setw(8) << std::setfill('0') << hash
formatHash(h) == padLeft(hexDigitsOf(h), 8, 48)

Hashing_calculateHash(s) == formatHash(fnvLoop([hash |-> FNV_OFFSET_BASIS, rest |-> s]))

(***************************************************************************)
(* CommitNode (Commit.h, Commit.cpp).                                      *)
(*                                                                         *)
(* A std::unordered_map<std::string, std::string> is the sequence of its   *)
(* <<key, value>> pairs in iteration order: the keys are unique, and the   *)
(* order is whatever the library makes it (any permutation).               *)
(***************************************************************************)
S_type      == <<116, 121, 112, 101, 58>>                       \* "type:"
S_hash      == <<104, 97, 115, 104, 58>>                        \* "hash:"
S_message   == <<109, 101, 115, 115, 97, 103, 101, 58>>         \* "message:"
S_timestamp == <<116, 105, 109, 101, 115, 116, 97, 109, 112, 58>> \* "timestamp:"
S_parent    == <<112, 97, 114, 101, 110, 116, 58>>              \* "parent:"
S_file      == <<102, 105, 108, 101, 58>>                       \* "file:"
S_commit    == <<99, 111, 109, 109, 105, 116>>                  \* "commit"
S_tree      == <<116, 114, 101, 101, 58>>                       \* "tree:"
S_indent    == <<32, 32>>                                       \* "  "

\* the keys of a map, as a set
keys(m) == {m[i][1] : i \in 1..Len(m)}

\* the key-value pairs of a map, as a set
pairs(m) == {m[i] : i \in 1..Len(m)}

\* every iteration order a map with the pairs of m can have
orders(m) == {[i \in 1..Len(m) |-> m[p[i]]] : p \in Permutations(1..Len(m))}

\* two decimal digits, zero padded (%m, %d, %H, %M, %S)
dec2(n) == <<48 + (n \div 10), 48 + (n % 10)>>

\* %Y of a four-digit year
dec4(n) == dec2(n \div 100) \o dec2(n % 100)

\* std::put_time(&tm_struct, "%Y-%m-%dT%H:%M:%S"); tm is the local time read
generateTimestamp(tm) ==
    dec4(tm.year) \o <<45>> \o dec2(tm.mon) \o <<45>> \o dec2(tm.mday) \o <<84>>
        \o dec2(tm.hour) \o <<58>> \o dec2(tm.min) \o <<58>> \o dec2(tm.sec)

\* std::sort(begin, end, [](a, b) { return a.first < b.first; }): the place
\* of pair e in the sorted vector v
RECURSIVE insertSorted(_, _)
insertSorted(v, e) ==
    IF v = <<>> THEN <<e>>
    ELSE IF stringLess(e[1], Head(v)[1]) THEN <<e>> \o v
    ELSE <<Head(v)>> \o insertSorted(Tail(v), e)

RECURSIVE sortByFirst(_)
sortByFirst(v) ==
    IF v = <<>> THEN <<>> ELSE insertSorted(sortByFirst(Tail(v)), Head(v))

\* the vector as copied from the map, the std::sort call left out
unsortedFileBlobs(fileBlobs) == fileBlobs

\* std::vector<std::pair<...>> sortedFileBlobs(fileBlobs.begin(), fileBlobs.end());
\* std::sort(...)
sortedFileBlobs(fileBlobs) == sortByFirst(fileBlobs)

\* for (parent : parentHashes) out << "parent:" << parent << "\n";
RECURSIVE parentLines(_)
parentLines(ps) ==
    IF ps = <<>> THEN <<>>
    ELSE S_parent \o Head(ps) \o NL \o parentLines(Tail(ps))

\* for (entry : sortedFileBlobs) out << prefix << entry.first << " " << entry.second << "\n";
RECURSIVE entryLines(_, _)
entryLines(prefix, es) ==
    IF es = <<>> THEN <<>>
    ELSE prefix \o Head(es)[1] \o SP \o Head(es)[2] \o NL \o entryLines(prefix, Tail(es))

\* the hashed text without the loop over parentHashes
contentToHashNoParents(c) ==
    S_commit \o NL
        \o S_message \o c.message \o NL
        \o S_timestamp \o c.timestamp \o NL
        \o S_tree \o NL
        \o entryLines(S_indent, sortedFileBlobs(c.fileBlobs))

\* contentToHash.str() of CommitNode::calculateHash
contentToHash(c) ==
    S_commit \o NL
        \o S_message \o c.message \o NL
        \o S_timestamp \o c.timestamp \o NL
        \o parentLines(c.parentHashes)
        \o S_tree \o NL
        \o entryLines(S_indent, sortedFileBlobs(c.fileBlobs))

CommitNode_calculateHash(c) == Hashing_calculateHash(contentToHash(c))

\* CommitNode::CommitNode()
CommitNode_default ==
    [hash |-> <<>>, parentHashes |-> <<>>, message |-> <<>>, timestamp |-> <<>>,
     fileBlobs |-> <<>>]

\* the constructor with its two statements swapped: the hash is calculated
\* while timestamp is still empty
CommitNode_newHashFirst(message, parentHashes, fileBlobs, tm) ==
    LET c == [hash |-> <<>>, parentHashes |-> parentHashes, message |-> message,
              timestamp |-> <<>>, fileBlobs |-> fileBlobs]
    IN  [c EXCEPT !.hash = CommitNode_calculateHash(c), !.timestamp = generateTimestamp(tm)]

\* CommitNode::CommitNode(message, parentHashes, fileBlobs); tm is the local time
\* generateTimestamp() reads
CommitNode_new(message, parentHashes, fileBlobs, tm) ==
    LET c == [hash |-> <<>>, parentHashes |-> parentHashes, message |-> message,
              timestamp |-> generateTimestamp(tm), fileBlobs |-> fileBlobs]
    IN  [c EXCEPT !.hash = CommitNode_calculateHash(c)]

\* CommitNode::serialize
serialize(c) ==
    S_type \o S_commit \o NL
        \o S_hash \o c.hash \o NL
        \o S_message \o c.message \o NL
        \o S_timestamp \o c.timestamp \o NL
        \o parentLines(c.parentHashes)
        \o entryLines(S_file, sortedFileBlobs(c.fileBlobs))

\* while (std::getline(ss, line)): the lines read from content
RECURSIVE getlines(_)
getlines(s) ==
    IF s = <<>> THEN <<>>
    ELSE LET i == find(s, 10)
         IN  IF i = -1 THEN <<s>>
             ELSE <<substr2(s, 0, i)>> \o getlines(substr(s, i + 1))

\* deserializedFileBlobs[filename] = blobHash
mapPut(m, k, v) ==
    IF k \in keys(m)
    THEN [i \in 1..Len(m) |-> IF m[i][1] = k THEN <<k, v>> ELSE m[i]]
    ELSE Append(m, <<k, v>>)

\* a decoder that gives up on a line it has no branch for
ignoreLineThrows(st, line) == [st EXCEPT !.thrown = "ParseError"]

\* the else branch: unknown and empty lines are skipped
ignoreLine(st, line) == st

\* s.rfind(c): the 0-based index of the last byte c, -1 for std::string::npos
rfind(s, c) ==
    IF \E i \in 1..Len(s) : s[i] = c
    THEN (CHOOSE i \in 1..Len(s) : s[i] = c /\ \A j \in (i + 1)..Len(s) : s[j] # c) - 1
    ELSE -1

\* the "file:" branch splitting the entry at its last space
fileLineLastSpace(st, line) ==
    LET fileEntry == substr(line, 5)
        spacePos == rfind(fileEntry, 32)
    IN  IF spacePos = -1
        THEN [st EXCEPT !.thrown = "ParseError"]
        ELSE [st EXCEPT !.fileBlobs =
                  mapPut(@, substr2(fileEntry, 0, spacePos), substr(fileEntry, spacePos + 1))]

\* the "file:" branch without the npos test: substr(0, npos) and substr(npos + 1)
\* are both the whole entry
fileLineUnchecked(st, line) ==
    LET fileEntry == substr(line, 5)
        spacePos == find(fileEntry, 32)
    IN  IF spacePos = -1
        THEN [st EXCEPT !.fileBlobs = mapPut(@, fileEntry, fileEntry)]
        ELSE [st EXCEPT !.fileBlobs =
                  mapPut(@, substr2(fileEntry, 0, spacePos), substr(fileEntry, spacePos + 1))]

\* the "file:" branch of the loop
fileLine(st, line) ==
    LET fileEntry == substr(line, 5)
        spacePos == find(fileEntry, 32)
    IN  IF spacePos = -1
        THEN [st EXCEPT !.thrown = "ParseError"]
        ELSE [st EXCEPT !.fileBlobs =
                  mapPut(@, substr2(fileEntry, 0, spacePos), substr(fileEntry, spacePos + 1))]

\* the "type:" branch without its test
typeLineAccepts(st, line) == st

\* the "type:" branch of the loop
typeLine(st, line) ==
    IF substr(line, 5) # S_commit THEN [st EXCEPT !.thrown = "FormatError"] ELSE st

\* the "timestamp:" branch cutting the line one byte early
timestampLineShort(st, line) == [st EXCEPT !.timestamp = substr(line, 9)]

\* the "timestamp:" branch of the loop
timestampLine(st, line) == [st EXCEPT !.timestamp = substr(line, 10)]

\* the "parent:" branch of the loop
parentLine(st, line) == [st EXCEPT !.parentHashes = Append(@, substr(line, 7))]

\* one iteration of the loop of CommitNode::deserialize
deserializeLine(st, line) ==
    IF startsWith(line, S_type) THEN typeLine(st, line)
    ELSE IF startsWith(line, S_hash) THEN [st EXCEPT !.hash = substr(line, 5)]
    ELSE IF startsWith(line, S_message) THEN [st EXCEPT !.message = substr(line, 8)]
    ELSE IF startsWith(line, S_timestamp) THEN timestampLine(st, line)
    ELSE IF startsWith(line, S_parent) THEN parentLine(st, line)
    ELSE IF startsWith(line, S_file) THEN fileLine(st, line)
    ELSE ignoreLine(st, line)

\* the loop: it ends at the first throw
RECURSIVE deserializeLoop(_, _)
deserializeLoop(st, lines) ==
    IF lines = <<>> \/ st.thrown # "" THEN st
    ELSE deserializeLoop(deserializeLine(st, Head(lines)), Tail(lines))

\* CommitNode::deserialize: status "ok" with the record returned, or the error
\* thrown ("FormatError": line 166, "ParseError": line 180) and no record
deserialize(bytes) ==
    LET st == deserializeLoop(
                  [hash |-> <<>>, parentHashes |-> <<>>, message |-> <<>>,
                   timestamp |-> <<>>, fileBlobs |-> <<>>, thrown |-> ""],
                  getlines(bytes))
    IN  IF st.thrown # ""
        THEN [status |-> st.thrown, node |-> <<>>]
        ELSE [status |-> "ok",
              node |-> <<[hash |-> st.hash, parentHashes |-> st.parentHashes,
                          message |-> st.message, timestamp |-> st.timestamp,
                          fileBlobs |-> st.fileBlobs]>>]

(***************************************************************************)
(* The inputs of the commit model.                                         *)
(***************************************************************************)
T_init == <<105, 110, 105, 116>>        \* "init"
T_a    == <<97>>                        \* "a"
T_b    == <<98>>                        \* "b"
T_ab   == <<97, 32, 98>>                \* "a b"
T_b1   == <<98, 49>>                    \* "b1"
T_b2   == <<98, 50>>                    \* "b2"
T_b1b2 == <<98, 49, 32, 98, 50>>        \* "b1 b2"
T_p1   == <<112, 49>>                   \* "p1"
T_p2   == <<112, 50>>                   \* "p2"
T_x    == <<120>>                       \* "x"
T_blob == <<98, 108, 111, 98>>          \* "blob"

\* the local times the clock is read at
Clock ==
    {[year |-> 2024, mon |-> 1, mday |-> 1, hour |-> 0, min |-> 0, sec |-> 0],
     [year |-> 2025, mon |-> 12, mday |-> 31, hour |-> 23, min |-> 59, sec |-> 58]}

\* commit messages: empty, plain, and one with a raw newline in it
Messages == {<<>>, T_init, T_init \o NL \o S_parent \o T_x}

\* parent sequences: none, and one that is neither sorted nor free of duplicates
Parents == {<<>>, <<T_p2, T_p1, T_p2>>}

\* snapshots: empty, two entries, a blob identifier with a space, and a path
\* with a space next to the path it is then read as
Snapshots ==
    {<<>>,
     <<<<T_a, T_b2>>, <<T_b, T_b1>>>>,
     <<<<T_a, T_b1b2>>>>,
     <<<<T_a, T_x>>, <<T_ab, T_b1>>>>}

ArgSpace == [message : Messages, parentHashes : Parents, fileBlobs : Snapshots]

BaseArgs == [message |-> <<>>, parentHashes |-> <<>>,
             fileBlobs |-> <<<<T_a, T_b2>>, <<T_b, T_b1>>>>]

\* the lines stored bytes are made of
LinePool ==
    {S_type \o S_commit,
     S_type \o T_blob,
     S_hash \o T_x,
     S_message \o T_init,
     S_parent \o T_p1,
     S_file \o T_a \o SP \o T_b2,
     S_file \o T_a,
     S_tree}

\* lines CommitNode::deserialize has no branch for
IgnoredLines == {<<>>, S_tree, SP \o S_file \o T_a}

\* each line followed by "\n"
RECURSIVE joinLines(_)
joinLines(ls) == IF ls = <<>> THEN <<>> ELSE Head(ls) \o NL \o joinLines(Tail(ls))

\* stored inputs: every sequence of at most two pool lines, and two inputs
\* with a bad type: line and a bad file: line in either order
StoredPool ==
    {joinLines(ls) : ls \in {<<>>} \cup {<<l>> : l \in LinePool}
                              \cup {<<k, l>> : k \in LinePool, l \in LinePool}}
    \cup {joinLines(<<S_hash \o T_x, S_type \o T_blob, S_file \o T_a>>),
          joinLines(<<S_message \o T_init, S_file \o T_a, S_type \o T_blob>>)}

\* stored inputs nobody serialized: no hash: line, or one that was edited
EditedPool ==
    {joinLines(<<S_timestamp \o generateTimestamp(tm),
                 S_file \o T_b \o SP \o T_b1,
                 S_file \o T_a \o SP \o T_b2>>) : tm \in Clock}
    \cup {joinLines(<<S_type \o S_commit, S_hash \o T_x, S_message \o T_init>>)}

NoResult == [input |-> <<>>, status |-> "none", node |-> <<>>]

(***************************************************************************)
(* The commit model: a caller with one CommitNode object and one buffer.   *)
(***************************************************************************)
HashIdle == hashInput = <<>> /\ digest = <<>>
FileIdle == entry = <<>> /\ last = <<>> /\ streak = <<>> /\ before = <<>>

Init ==
    /\ HashIdle
    /\ FileIdle
    /\ args \in ArgSpace
    /\ buf \in {<<>>} \cup EditedPool
    /\ buf = <<>> \/ args = BaseArgs
    /\ pristine = buf
    /\ commit = CommitNode_default
    /\ origin = "default"
    /\ out = NoResult

\* commit = CommitNode();
DefaultConstruct ==
    /\ commit' = CommitNode_default
    /\ origin' = "default"
    /\ UNCHANGED <<args, buf, pristine, out, hashVars, fileVars>>

\* commit = CommitNode(message, parentHashes, fileBlobs); at local time tm, the
\* copied map iterating in order fb
Construct(tm, fb) ==
    /\ commit' = CommitNode_new(args.message, args.parentHashes, fb, tm)
    /\ origin' = "constructor"
    /\ UNCHANGED <<args, buf, pristine, out, hashVars, fileVars>>

\* buf = commit.serialize();
Serialize ==
    /\ buf' = serialize(commit)
    /\ pristine' = buf'
    /\ UNCHANGED <<args, commit, origin, out, hashVars, fileVars>>

\* buf = decoded.serialize(); for the record the last deserialize returned
SerializeDecoded ==
    /\ out.status = "ok"
    /\ buf' = serialize(out.node[1])
    /\ pristine' = buf'
    /\ UNCHANGED <<args, commit, origin, out, hashVars, fileVars>>

\* the stored bytes gain a line the decoder has no branch for, after k lines
InsertIgnoredLine(k, line) ==
    LET lines == getlines(buf)
    IN  /\ Len(lines) < MaxLines
        /\ k \in 0..Len(lines)
        /\ buf' = joinLines(SubSeq(lines, 1, k) \o <<line>> \o SubSeq(lines, k + 1, Len(lines)))
        /\ UNCHANGED <<args, commit, origin, pristine, out, hashVars, fileVars>>

\* decoded = CommitNode::deserialize(buf); the map of the record returned
\* iterating in order fb
Deserialize ==
    LET r == deserialize(buf)
    IN  /\ \/ /\ r.status = "ok"
              /\ \E fb \in orders(r.node[1].fileBlobs) :
                     out' = [input |-> buf, status |-> "ok",
                             node |-> <<[r.node[1] EXCEPT !.fileBlobs = fb]>>]
           \/ /\ r.status # "ok"
              /\ out' = [input |-> buf, status |-> r.status, node |-> <<>>]
        /\ UNCHANGED <<args, commit, origin, buf, pristine, hashVars, fileVars>>

Next ==
    \/ DefaultConstruct
    \/ \E tm \in Clock : \E fb \in orders(args.fileBlobs) : Construct(tm, fb)
    \/ Serialize
    \/ SerializeDecoded
    \/ Deserialize

Spec == Init /\ [][Next]_vars

(***************************************************************************)
(* Properties of the commit record and its encoding.                       *)
(***************************************************************************)
has(s, b) == \E i \in 1..Len(s) : s[i] = b

\* message and timestamp without a newline, paths without a space or a
\* newline, identifiers (own, parents, blobs) without a newline
WellFormed(c) ==
    /\ ~has(c.message, 10)
    /\ ~has(c.timestamp, 10)
    /\ ~has(c.hash, 10)
    /\ \A i \in 1..Len(c.parentHashes) : ~has(c.parentHashes[i], 10)
    /\ \A i \in 1..Len(c.fileBlobs) :
           /\ ~has(c.fileBlobs[i][1], 10)
           /\ ~has(c.fileBlobs[i][1], 32)
           /\ ~has(c.fileBlobs[i][2], 10)

\* the last deserialize call was given the bytes commit.serialize() returns
DecodedFromCommit == out.status # "none" /\ out.input = serialize(commit)

decoded == out.node[1]

\* same message, timestamp, parent sequence and set of path-to-blob pairs
SameContent(c, d) ==
    /\ c.message = d.message
    /\ c.timestamp = d.timestamp
    /\ c.parentHashes = d.parentHashes
    /\ pairs(c.fileBlobs) = pairs(d.fileBlobs)
    /\ Len(c.fileBlobs) = Len(d.fileBlobs)

\* C1: decoding the serialization of a well-formed record succeeds and gives
\* back its message, its timestamp, its parents in the same order with
\* duplicates kept, and a snapshot with exactly the same path-to-blob pairs.
C1_RoundTrip ==
    (WellFormed(commit) /\ DecodedFromCommit)
        => (out.status = "ok" /\ SameContent(commit, decoded))

C1_Witness ==
    /\ WellFormed(commit)
    /\ DecodedFromCommit
    /\ out.status = "ok"
    /\ commit.parentHashes = <<T_p2, T_p1, T_p2>>
    /\ commit.fileBlobs = <<<<T_a, T_b1b2>>>>
    /\ commit.message = T_init

\* v is in ascending path order
Ascending(v) == \A i \in 1..(Len(v) - 1) : stringLess(v[i][1], v[i + 1][1])

\* bytes ends with the file: lines of the snapshot m in ascending path order
EndsWithSortedFiles(bytes, m) ==
    \E v \in orders(m) :
        /\ Ascending(v)
        /\ LET tail == entryLines(S_file, v)
           IN  /\ Len(bytes) >= Len(tail)
               /\ substr(bytes, Len(bytes) - Len(tail)) = tail

\* two records with the same content whose maps iterate in different orders
ReorderedPair ==
    /\ out.status = "ok"
    /\ SameContent(commit, decoded)
    /\ commit.fileBlobs # decoded.fileBlobs

SameEncoding ==
    /\ serialize(commit) = serialize(decoded)
    /\ EndsWithSortedFiles(serialize(commit), commit.fileBlobs)
    /\ CommitNode_calculateHash(commit) = CommitNode_calculateHash(decoded)

\* C2 as stated: two records with the same message, timestamp, parents and
\* path-to-blob pairs, iterated in different orders, serialize to the same
\* bytes, file: lines ascending, and calculateHash() agrees on them.
C2_AsStated == ReorderedPair => SameEncoding

\* C2: the same, for two records that also hold the same identifier (as any
\* two records of equal content built by the constructor do).
C2_OrderIndependent ==
    (ReorderedPair /\ commit.hash = decoded.hash) => SameEncoding

C2_Witness ==
    /\ ReorderedPair
    /\ commit.hash = decoded.hash
    /\ origin = "constructor"
    /\ commit.fileBlobs = <<<<T_b, T_b1>>, <<T_a, T_b2>>>>
    /\ decoded.fileBlobs = <<<<T_a, T_b2>>, <<T_b, T_b1>>>>

\* the value of the hash: line of serialized bytes (their second line)
hashLineOf(bytes) == substr(getlines(bytes)[2], 5)

\* C3 as stated: for a record built by the constructor from any message,
\* parents and snapshot, decoding its serialization and recomputing the hash
\* gives the value of the hash: line.
C3_AsStated ==
    (origin = "constructor" /\ DecodedFromCommit)
        => (out.status = "ok"
            /\ CommitNode_calculateHash(decoded) = hashLineOf(serialize(commit)))

\* C3: the same, for a record built by the constructor from well-formed
\* arguments (message without a newline, paths without a space or a newline,
\* identifiers without a newline).
C3_RecomputedHash ==
    (origin = "constructor" /\ WellFormed(commit) /\ DecodedFromCommit)
        => (out.status = "ok"
            /\ CommitNode_calculateHash(decoded) = hashLineOf(serialize(commit)))

C3_Witness ==
    /\ origin = "constructor"
    /\ WellFormed(commit)
    /\ DecodedFromCommit
    /\ out.status = "ok"
    /\ Len(commit.parentHashes) = 3
    /\ Len(commit.fileBlobs) = 2
    /\ Len(hashLineOf(serialize(commit))) = 8

\* C4 as stated: every record there is (default-constructed, constructed,
\* decoded) holds the hash calculateHash() computes for it.
C4_AsStated ==
    /\ commit.hash = CommitNode_calculateHash(commit)
    /\ out.status = "ok" => decoded.hash = CommitNode_calculateHash(decoded)

\* C4: a record built by the constructor holds the hash calculateHash()
\* computes for it; a default-constructed record holds the empty identifier.
C4_ConstructedHash ==
    /\ origin = "constructor" => commit.hash = CommitNode_calculateHash(commit)
    /\ origin = "default" => commit.hash = <<>>

C4_Witness ==
    /\ origin = "constructor"
    /\ Len(commit.parentHashes) = 3
    /\ Len(commit.fileBlobs) = 2
    /\ commit.message # <<>>

\* bytes without its first line that starts with "hash:"
RECURSIVE dropHashLine(_)
dropHashLine(lines) ==
    IF lines = <<>> THEN <<>>
    ELSE IF startsWith(Head(lines), S_hash) THEN Tail(lines)
    ELSE <<Head(lines)>> \o dropHashLine(Tail(lines))

withoutHashLine(bytes) == joinLines(dropHashLine(getlines(bytes)))

\* C5 as stated: the bytes calculateHash() fingerprints are serialize()
\* with only the hash: line removed.
C5_AsStated == contentToHash(commit) = withoutHashLine(serialize(commit))

\* the message, timestamp and parent lines of record c
metaLines(c) ==
    S_message \o c.message \o NL \o S_timestamp \o c.timestamp \o NL
        \o concat([i \in 1..Len(c.parentHashes) |-> S_parent \o c.parentHashes[i] \o NL])

\* the stored and the hashed form of c share the message, timestamp and parent
\* lines and list the same entries in the same order
FormsCorrespond(c) ==
    \E v \in orders(c.fileBlobs) :
        /\ serialize(c) =
               S_type \o S_commit \o NL \o S_hash \o c.hash \o NL \o metaLines(c)
                   \o concat([i \in 1..Len(v) |-> S_file \o v[i][1] \o SP \o v[i][2] \o NL])
        /\ contentToHash(c) =
               S_commit \o NL \o metaLines(c) \o S_tree \o NL
                   \o concat([i \in 1..Len(v) |-> S_indent \o v[i][1] \o SP \o v[i][2] \o NL])

\* C5: the bytes calculateHash() fingerprints have the message, timestamp and
\* parent lines of serialize(); they start with the line "commit" where
\* serialize() has "type:commit" and "hash:...", and after a line "tree:" they
\* have "  <path> <blob>" for each "file:<path> <blob>", in the same order.
C5_HashedForm ==
    /\ FormsCorrespond(commit)
    /\ out.status = "ok" => FormsCorrespond(decoded)

C5_Witness ==
    /\ origin = "constructor"
    /\ Len(commit.parentHashes) = 3
    /\ Len(commit.fileBlobs) = 2
    /\ out.status = "ok"
    /\ Len(decoded.fileBlobs) = 2

(***************************************************************************)
(* The decoder on stored bytes of any content.                             *)
(***************************************************************************)
DecodeInit ==
    /\ HashIdle
    /\ FileIdle
    /\ args = BaseArgs
    /\ buf \in StoredPool
    /\ pristine = buf
    /\ commit = CommitNode_default
    /\ origin = "default"
    /\ out = NoResult

DecodeNext ==
    \/ \E k \in 0..MaxLines : \E line \in IgnoredLines : InsertIgnoredLine(k, line)
    \/ Deserialize

DecodeSpec == DecodeInit /\ [][DecodeNext]_vars

(***************************************************************************)
(* Properties of the decoder.                                              *)
(***************************************************************************)
inputLines == getlines(out.input)

\* a line that starts with "file:" and has no space after the prefix
BadFileLine(l) == startsWith(l, S_file) /\ ~has(substr(l, 5), 32)

\* a "type:" line whose value is not exactly "commit"
BadTypeLine(l) == startsWith(l, S_type) /\ substr(l, 5) # S_commit

HasBadFileLine == \E i \in 1..Len(inputLines) : BadFileLine(inputLines[i])
HasBadTypeLine == \E i \in 1..Len(inputLines) : BadTypeLine(inputLines[i])

\* a bad type: line comes before every bad file: line
BadTypeFirst ==
    \E i \in 1..Len(inputLines) :
        /\ BadTypeLine(inputLines[i])
        /\ \A j \in 1..(i - 1) : ~BadFileLine(inputLines[j])

\* a bad file: line comes before every bad type: line
BadFileFirst ==
    \E i \in 1..Len(inputLines) :
        /\ BadFileLine(inputLines[i])
        /\ \A j \in 1..(i - 1) : ~BadTypeLine(inputLines[j])

Called == out.status # "none"

\* C6 as stated: an input with a file: line without a space fails with the
\* parse error, wherever the line is and whatever the other lines are.
C6_AsStated ==
    (Called /\ HasBadFileLine) => (out.status = "ParseError" /\ out.node = <<>>)

\* C6: an input with a file: line without a space fails and no record is
\* returned; the failure is the parse error unless a type: line with a value
\* other than commit comes before the first such file: line, and then it is
\* the format error.
C6_BadFileLine ==
    (Called /\ HasBadFileLine)
        => /\ out.node = <<>>
           /\ out.status = (IF BadFileFirst THEN "ParseError" ELSE "FormatError")

C6_Witness ==
    /\ Called
    /\ out.status = "ParseError"
    /\ Len(inputLines) = 3
    /\ BadFileLine(inputLines[3])
    /\ startsWith(inputLines[1], S_message)

\* C7 as stated: an input with a type: line whose value is not commit fails
\* with the format error; an input whose type: lines all say commit is not
\* rejected for its type.
C7_AsStated ==
    /\ (Called /\ HasBadTypeLine) => (out.status = "FormatError" /\ out.node = <<>>)
    /\ (Called /\ ~HasBadTypeLine) => out.status # "FormatError"

\* C7: an input with a type: line whose value is not commit fails and no
\* record is returned; the failure is the format error unless a file: line
\* without a space comes before the first such type: line, and then it is the
\* parse error.  An input whose type: lines all say commit never fails with
\* the format error.
C7_BadTypeLine ==
    /\ (Called /\ HasBadTypeLine)
           => /\ out.node = <<>>
              /\ out.status = (IF BadTypeFirst THEN "FormatError" ELSE "ParseError")
    /\ (Called /\ ~HasBadTypeLine) => out.status # "FormatError"

C7_Witness ==
    /\ Called
    /\ out.status = "FormatError"
    /\ Len(inputLines) = 3
    /\ BadTypeLine(inputLines[3])
    /\ startsWith(inputLines[1], S_type)

\* r and q are the same outcome: both fail alike, or both return records
\* with the same fields
SameOutcome(r, q) ==
    /\ r.status = q.status
    /\ r.status = "ok" =>
           /\ r.node[1].hash = q.node[1].hash
           /\ SameContent(r.node[1], q.node[1])

Ignored(l) ==
    /\ ~startsWith(l, S_type) /\ ~startsWith(l, S_hash) /\ ~startsWith(l, S_message)
    /\ ~startsWith(l, S_timestamp) /\ ~startsWith(l, S_parent) /\ ~startsWith(l, S_file)

\* ls without its lines of unknown prefix and its empty lines
RECURSIVE knownLines(_)
knownLines(ls) ==
    IF ls = <<>> THEN <<>>
    ELSE IF Ignored(Head(ls)) THEN knownLines(Tail(ls))
    ELSE <<Head(ls)>> \o knownLines(Tail(ls))

\* C8: lines of unknown prefix and empty lines added to an input, in any
\* number and at any place, change neither whether decoding succeeds nor any
\* field of the record decoded.
C8_IgnoredLines ==
    (Called /\ out.input = buf)
        => /\ SameOutcome(out, deserialize(pristine))
           /\ SameOutcome(out, deserialize(joinLines(knownLines(inputLines))))

C8_Witness ==
    /\ Called
    /\ out.input = buf
    /\ Len(getlines(buf)) = Len(getlines(pristine)) + 1
    /\ out.status = "ok"
    /\ decoded.message = T_init
    /\ Len(decoded.fileBlobs) = 1
    /\ inputLines[1] = <<>>

(***************************************************************************)
(* Hashing::calculateHash called on byte sequences.                        *)
(***************************************************************************)
\* the bytes the arguments are made of: NUL, control, printable, and bytes
\* that are negative as a signed char
HashBytes == {0, 1, 10, 32, 97, 127, 128, 255}

RECURSIVE byteSeqs(_)
byteSeqs(n) ==
    IF n = 0 THEN {<<>>}
    ELSE byteSeqs(n - 1)
             \cup {Append(t, b) : t \in {u \in byteSeqs(n - 1) : Len(u) = n - 1}, b \in HashBytes}

HashInit ==
    /\ hashInput \in byteSeqs(MaxBytes)
    /\ digest = <<>>
    /\ args = BaseArgs
    /\ buf = <<>>
    /\ pristine = <<>>
    /\ commit = CommitNode_default
    /\ origin = "default"
    /\ out = NoResult
    /\ FileIdle

\* digest = Hashing::calculateHash(hashInput);
CalculateHash ==
    /\ digest' = <<Hashing_calculateHash(hashInput)>>
    /\ UNCHANGED <<hashInput, commitVars, fileVars>>

HashNext == CalculateHash

HashSpec == HashInit /\ [][HashNext]_vars

(***************************************************************************)
(* FNV-1a, 32 bits, written out on the four bytes of the accumulator,      *)
(* lowest first.                                                           *)
(***************************************************************************)
\* bit i of n
bit(n, i) == (n \div (2 ^ i)) % 2

\* exclusive or of two bytes, bit by bit
refXor8(a, b) ==
    LET x(i) == ((bit(a, i) + bit(b, i)) % 2) * (2 ^ i)
    IN  x(0) + x(1) + x(2) + x(3) + x(4) + x(5) + x(6) + x(7)

\* times 16777619 = 2^24 + 403, modulo 2^32
refTimesPrime(v) ==
    LET t0 == v[1] * 403
        t1 == v[2] * 403 + (t0 \div 256)
        t2 == v[3] * 403 + (t1 \div 256)
        t3 == v[4] * 403 + (t2 \div 256) + v[1]
    IN  <<t0 % 256, t1 % 256, t2 % 256, t3 % 256>>

RECURSIVE refFnv1a(_, _)
refFnv1a(s, n) ==
    IF n = 0 THEN <<197, 157, 28, 129>>     \* 2166136261 = 0x811c9dc5
    ELSE LET v == refFnv1a(s, n - 1)
         IN  refTimesPrime(<<refXor8(v[1], s[n]), v[2], v[3], v[4]>>)

refHexByte(b) == <<HexDigits[(b \div 16) + 1], HexDigits[(b % 16) + 1]>>

refHex(v) == refHexByte(v[4]) \o refHexByte(v[3]) \o refHexByte(v[2]) \o refHexByte(v[1])

\* C9: calculateHash(b) is the 32-bit FNV-1a value of b (from 2166136261, each
\* byte as 0..255 XORed in and the result multiplied by 16777619 modulo 2^32)
\* as exactly 8 lowercase hexadecimal digits, zero padded; the empty input
\* gives 811c9dc5.
C9_Fnv1a ==
    digest # <<>> =>
        /\ digest[1] = refHex(refFnv1a(hashInput, Len(hashInput)))
        /\ Len(digest[1]) = 8
        /\ \A i \in 1..8 : \E d \in 1..16 : digest[1][i] = HexDigits[d]
        /\ hashInput = <<>> => digest[1] = <<56, 49, 49, 99, 57, 100, 99, 53>>

\* a first byte that is negative as a signed char, and a value whose first
\* digit is the padding zero
C9_Witness ==
    /\ digest # <<>>
    /\ Len(hashInput) = 2
    /\ hashInput[1] >= 128
    /\ digest[1][1] = 48

(***************************************************************************)
(* FileUtils (FileUtils.cpp) on a small file system.                       *)
(*                                                                         *)
(* A path is the sequence of its components; <<>> is the empty path, the   *)
(* parent of a bare file name.  Each path is absent, a directory or a       *)
(* regular file with its bytes and whether it can be opened for reading    *)
(* and for writing.                                                        *)
(***************************************************************************)
P_f  == <<"f">>
P_d  == <<"d">>
P_df == <<"d", "f">>
P_de == <<"d", "e">>
P_deg == <<"d", "e", "g">>

Paths == {P_f, P_d, P_df, P_de, P_deg}

\* the arguments of writeToFile
D_x  == <<120>>             \* "x"
D_xy == <<120, 121>>        \* "xy"
Contents == {<<>>, D_xy}

Absent == [kind |-> "none", data |-> <<>>, readable |-> FALSE, writable |-> FALSE]
Directory == [kind |-> "dir", data |-> <<>>, readable |-> FALSE, writable |-> FALSE]
File(data, r, w) == [kind |-> "file", data |-> data, readable |-> r, writable |-> w]

\* p.parent_path()
parent_path(p) == SubSeq(p, 1, Len(p) - 1)

\* fs::exists(p); the empty path names nothing
exists(fs, p) == p # <<>> /\ fs[p].kind # "none"

\* fs::is_regular_file(p)
is_regular_file(fs, p) == p # <<>> /\ fs[p].kind = "file"

\* fs::is_directory(p)
is_directory(fs, p) == p # <<>> /\ fs[p].kind = "dir"

\* the prefixes of p that a directory has to stand at: p and its ancestors
ancestors(p) == {SubSeq(p, 1, n) : n \in 1..Len(p)}

\* fs::create_directories(p, ec) for a path that does not exist: true with p
\* and its missing ancestors made directories, false when a regular file is
\* in the way
create_directories(fs, p) ==
    IF \E q \in ancestors(p) : fs[q].kind = "file"
    THEN [ok |-> FALSE, fs |-> fs]
    ELSE [ok |-> TRUE, fs |-> [q \in DOMAIN fs |-> IF q \in ancestors(p) THEN Directory ELSE fs[q]]]

\* ensureParentDirectoryExists(filePath)
ensureParentDirectoryExists(fs, filePath) ==
    LET parentDir == parent_path(filePath)
    IN  IF parentDir # <<>> /\ ~exists(fs, parentDir)
        THEN create_directories(fs, parentDir)
        ELSE [ok |-> TRUE, fs |-> fs]

\* std::ofstream outFile(filename, std::ios::binary): is_open()
canOpenForWriting(fs, filename) ==
    /\ parent_path(filename) = <<>> \/ is_directory(fs, parent_path(filename))
    /\ \/ fs[filename].kind = "none"
       \/ fs[filename].kind = "file" /\ fs[filename].writable

\* the file after the open: truncated if it was there, created readable and
\* writable if not
opened(fs, filename) ==
    IF fs[filename].kind = "file"
    THEN [fs EXCEPT ![filename].data = <<>>]
    ELSE [fs EXCEPT ![filename] = File(<<>>, TRUE, TRUE)]

\* writeToFile with the stream opened for appending (std::ios::app)
writeToFileAppend(fs, filename, content, written) ==
    LET made == ensureParentDirectoryExists(fs, filename)
    IN  IF ~made.ok THEN [ok |-> FALSE, fs |-> made.fs]
        ELSE IF ~canOpenForWriting(made.fs, filename) THEN [ok |-> FALSE, fs |-> made.fs]
        ELSE LET disk == [made.fs EXCEPT ![filename] =
                              IF @.kind = "file"
                              THEN [@ EXCEPT !.data = @ \o SubSeq(content, 1, written)]
                              ELSE File(SubSeq(content, 1, written), TRUE, TRUE)]
             IN  [ok |-> written = Len(content), fs |-> disk]

\* FileUtils::writeToFile(filename, content); written is the number of bytes
\* of content that reach the file before the stream fails (all of them: none)
writeToFile(fs, filename, content, written) ==
    LET made == ensureParentDirectoryExists(fs, filename)
    IN  IF ~made.ok THEN [ok |-> FALSE, fs |-> made.fs]
        ELSE IF ~canOpenForWriting(made.fs, filename) THEN [ok |-> FALSE, fs |-> made.fs]
        ELSE LET disk == [opened(made.fs, filename) EXCEPT
                              ![filename].data = SubSeq(content, 1, written)]
             IN  [ok |-> written = Len(content), fs |-> disk]

\* FileUtils::readFromFile(filename, content)
readFromFile(fs, filename) ==
    IF ~exists(fs, filename) THEN [ok |-> FALSE, content |-> <<>>]
    ELSE IF ~is_regular_file(fs, filename) THEN [ok |-> FALSE, content |-> <<>>]
    ELSE IF ~fs[filename].readable THEN [ok |-> FALSE, content |-> <<>>]
    ELSE [ok |-> TRUE, content |-> fs[filename].data]

\* the file systems the calls start from
InitialFiles ==
    {Absent, File(<<>>, TRUE, TRUE), File(D_x, TRUE, TRUE), File(D_x, TRUE, FALSE),
     File(D_x, FALSE, TRUE)}

InitialTrees ==
    {fs \in [Paths -> InitialFiles \cup {Directory}] :
        /\ fs[P_f].kind # "dir"
        /\ fs[P_df].kind # "dir"
        /\ fs[P_deg] = Absent
        /\ fs[P_de] \in {Absent, Directory}
        /\ fs[P_d] \in {Absent, Directory, File(D_x, TRUE, TRUE)}
        /\ fs[P_df].kind # "none" => fs[P_d].kind = "dir"
        /\ fs[P_de].kind # "none" => fs[P_d].kind = "dir"}

NoCall == [op |-> "none", filename |-> <<>>, content |-> <<>>, ok |-> FALSE]
NoStreak == [filename |-> <<>>, content |-> <<>>, n |-> 0]

FileInit ==
    /\ entry \in InitialTrees
    /\ last = NoCall
    /\ streak = NoStreak
    /\ before = entry
    /\ HashIdle
    /\ args = BaseArgs
    /\ buf = <<>>
    /\ pristine = <<>>
    /\ commit = CommitNode_default
    /\ origin = "default"
    /\ out = NoResult

\* ok = FileUtils::writeToFile(filename, content);
WriteToFile(filename, content, written) ==
    LET r == writeToFile(entry, filename, content, written)
    IN  /\ entry' = r.fs
        /\ before' = entry
        /\ last' = [op |-> "write", filename |-> filename, content |-> content, ok |-> r.ok]
        /\ streak' =
               IF ~r.ok THEN NoStreak
               ELSE IF streak.n >= 1 /\ streak.filename = filename /\ streak.content = content
                    THEN [streak EXCEPT !.n = 2]
                    ELSE [filename |-> filename, content |-> content, n |-> 1]
        /\ UNCHANGED <<hashVars, commitVars>>

\* ok = FileUtils::readFromFile(filename, content);
ReadFromFile(filename) ==
    LET r == readFromFile(entry, filename)
    IN  /\ last' = [op |-> "read", filename |-> filename, content |-> r.content, ok |-> r.ok]
        /\ UNCHANGED <<entry, before, streak, hashVars, commitVars>>

FileNext ==
    \/ \E filename \in Paths, content \in Contents :
           \E written \in 0..Len(content) : WriteToFile(filename, content, written)
    \/ \E filename \in Paths : ReadFromFile(filename)

FileSpec == FileInit /\ [][FileNext]_vars

(***************************************************************************)
(* Properties of the file helpers.                                         *)
(***************************************************************************)
\* the last call was the second of two successful writeToFile(f, c) in a row
SecondWrite == streak.n = 2 /\ last.op = "write"

\* the last call was readFromFile(f, out) after those two writes
ReadAfterWrites == streak.n = 2 /\ last.op = "read" /\ last.filename = streak.filename

=============================================================================
